---- MODULE Spec2Model ----
(***************************************************************************)
(* Model of the ticketing backend (src/main.py, src/db.py): the ticket and *)
(* task stores, the request handlers as interleaved steps (one step per    *)
(* SQL statement group), the projections of a stored ticket row, and the   *)
(* notifications each request issues.                                      *)
(***************************************************************************)
EXTENDS Integers, Sequences, FiniteSets, TLC

VARIABLES
    tickets,    \* the tickets table: id -> row
    tasks,      \* the tasks table: id -> row (a deleted task leaves the domain)
    users,      \* the users table: set of [email, first_name, last_name]
    now,        \* the wall clock read by datetime.now(timezone.utc)
    reqs,       \* the request in flight in each worker slot, with its position
    last,       \* the request that completed last, with its response
    started     \* number of requests accepted so far

vars == <<tickets, tasks, users, now, reqs, last, started>>

----------------------------------------------------------------------------
(* Bounds of the model *)

MaxTime == 2
MaxRequests == 2

Slots == {1, 2}
TicketIds == {1, 2}
TaskIds == {1}
MissingIds == {3}                \* ids that name no stored ticket or task
RequestIds == TicketIds \cup MissingIds
TaskRequestIds == TaskIds \cup MissingIds

----------------------------------------------------------------------------
(* Optional values: None is the empty set, a present value v is {v} *)

None == {}
Some(v) == {v}
Val(x) == CHOOSE v \in x : TRUE

NULL == "NULL"

(* dict helpers: a dict is a function from key strings *)
Put(d, k, v) == [x \in (DOMAIN d) \cup {k} |-> IF x = k THEN v ELSE d[x]]
Pop(d, k) == [x \in (DOMAIN d) \ {k} |-> d[x]]

----------------------------------------------------------------------------
(* Stored screenshot text, as a sequence of lexical tokens: the brackets   *)
(* and comma of a JSON array, a quoted string <<"q", s>>, or a bare word   *)
(* <<"w", s>> such as an unquoted URL.                                     *)

U1 == "/static/uploads/a.png"
U2 == "/static/uploads/b.png"
LB == <<"[">>
RB == <<"]">>
CM == <<",">>
Q(s) == <<"q", s>>
W(s) == <<"w", s>>

TextEmpty == <<>>
TextUrl == <<W(U1)>>
TextList0 == <<LB, RB>>
TextList1 == <<LB, Q(U1), RB>>
TextList2 == <<LB, Q(U1), CM, Q(U2), RB>>

IsQuoted(t) == t[1] = "q"

(* json.loads on a token sequence: a JSON array of strings, a JSON string, *)
(* or a decode error (json.JSONDecodeError, a ValueError)                  *)
RECURSIVE JsonElems(_, _)
JsonElems(toks, acc) ==
    IF toks = <<RB>> THEN [ok |-> TRUE, kind |-> "list", val |-> acc]
    ELSE IF Len(toks) >= 3 /\ toks[1] = CM /\ IsQuoted(toks[2])
         THEN JsonElems(SubSeq(toks, 3, Len(toks)), Append(acc, toks[2][2]))
         ELSE [ok |-> FALSE]

json_loads(toks) ==
    IF toks = <<>> THEN [ok |-> FALSE]
    ELSE IF toks[1] = LB
         THEN IF toks = <<LB, RB>> THEN [ok |-> TRUE, kind |-> "list", val |-> <<>>]
              ELSE IF Len(toks) >= 3 /\ IsQuoted(toks[2])
                   THEN JsonElems(SubSeq(toks, 3, Len(toks)), <<toks[2][2]>>)
                   ELSE [ok |-> FALSE]
         ELSE IF Len(toks) = 1 /\ IsQuoted(toks[1])
              THEN [ok |-> TRUE, kind |-> "str", val |-> toks[1][2]]
              ELSE [ok |-> FALSE]

(* Python truthiness of a nullable text column: None and "" are falsy *)
Falsy(raw) == raw = None \/ Val(raw) = <<>>

(* The text of a bare (unparsed) value, as list_tickets keeps it *)
RawText(toks) == IF Len(toks) = 1 THEN toks[1][2] ELSE "<text>"

----------------------------------------------------------------------------
(* TicketOut: the response model.  Construction fails (ValidationError)    *)
(* when a field without a default is missing from the keyword arguments.   *)

TicketOutFields ==
    {"id", "title", "description", "submitted_by", "submitted_by_name",
     "cc_email", "status", "priority", "location", "created_at",
     "updated_at", "archived", "screenshots", "assigned_to"}

TicketOutRequired == TicketOutFields \ {"cc_email", "assigned_to"}

TicketOut(result) ==
    IF TicketOutRequired \subseteq DOMAIN result
    THEN [ok |-> TRUE,
          view |-> [f \in TicketOutFields |->
                       IF f \in DOMAIN result THEN result[f] ELSE NULL]]
    ELSE [ok |-> FALSE]

(* (first + " " + last).strip() for names without surrounding blanks *)
FullName(first_name, last_name) ==
    IF first_name = "" THEN last_name
    ELSE IF last_name = "" THEN first_name
    ELSE first_name \o " " \o last_name

(* LEFT JOIN users AS u ON t.submitted_by = u.email: the matching user's   *)
(* names, or NULLs (email is UNIQUE)                                       *)
JoinUser(us, email) ==
    IF \E u \in us : u.email = email
    THEN LET u == CHOOSE u \in us : u.email = email
         IN  [first_name |-> Some(u.first_name), last_name |-> Some(u.last_name)]
    ELSE [first_name |-> None, last_name |-> None]

OrEmpty(x) == IF x = None \/ Val(x) = "" THEN "" ELSE Val(x)

(* list_tickets, the body of the loop over the fetched rows *)
list_tickets_row(row, us) ==
    LET j == JoinUser(us, row["submitted_by"])
        name == FullName(OrEmpty(j.first_name), OrEmpty(j.last_name))
        raw == row["screenshot"]
        parsed == json_loads(Val(raw))
        screenshots ==
            IF Falsy(raw) THEN <<>>
            ELSE IF parsed.ok
                 THEN IF parsed.kind = "list" THEN parsed.val ELSE <<parsed.val>>
                 ELSE <<RawText(Val(raw))>>
        data == Put(Put(Pop(row, "screenshot"), "submitted_by_name", name),
                    "screenshots", screenshots)
    IN  TicketOut(data)

(* get_ticket, after the row was found *)
get_ticket_row(row) ==
    LET raw == IF Falsy(row["screenshot"]) THEN TextList0 ELSE Val(row["screenshot"])
        parsed == json_loads(raw)
        result == Put(Put(Pop(row, "screenshot"), "submitted_by_name", row["submitted_by"]),
                      "screenshots", IF parsed.ok THEN parsed.val ELSE <<>>)
    IN  IF ~parsed.ok THEN [ok |-> FALSE]            \* json.loads raises
        ELSE IF parsed.kind # "list" THEN [ok |-> FALSE]  \* not a List[str]
        ELSE TicketOut(result)

(* patch_ticket as first defined (line 317): the row dict goes to          *)
(* TicketOut with the screenshot column and without a screenshots key      *)
patch_ticket_317_row(row) ==
    TicketOut(Put(row, "submitted_by_name", row["submitted_by"]))

(* patch_ticket as defined again (line 497): decodes the screenshot column *)
patch_ticket_497_row(row) ==
    LET raw == IF Falsy(row["screenshot"]) THEN TextList0 ELSE Val(row["screenshot"])
        parsed == json_loads(raw)
        screenshots ==
            IF parsed.ok
            THEN IF parsed.kind = "list" THEN parsed.val ELSE <<parsed.val>>
            ELSE <<>>
    IN  TicketOut(Put(Put(Pop(row, "screenshot"), "submitted_by_name", row["submitted_by"]),
                      "screenshots", screenshots))

(* Both handlers are registered for PATCH /tickets/{ticket_id}; the router *)
(* hands a request to the first registered route that matches.             *)
PatchRoutes == <<"patch_ticket_317", "patch_ticket_497">>
ServingHandler == PatchRoutes[1]

patch_ticket_row(row) ==
    IF ServingHandler = "patch_ticket_317" THEN patch_ticket_317_row(row)
    ELSE patch_ticket_497_row(row)

----------------------------------------------------------------------------
(* TicketUpdate: every field is Optional and defaults to None, so a field  *)
(* absent from the JSON body and a field sent as null are the same value.  *)

TicketUpdateFields ==
    {"title", "description", "status", "priority", "updated_at",
     "assigned_to", "archived"}

NoChanges == [f \in TicketUpdateFields |-> None]
Only(f, v) == [NoChanges EXCEPT ![f] = Some(v)]

(* The change sets the model sends *)
ChangeSets ==
    {NoChanges,
     Only("title", "T1"),
     Only("status", "In Progress"), Only("status", "Resolved"),
     Only("status", "Closed"),
     Only("priority", "High"), Only("assigned_to", "staff@msi"),
     Only("archived", TRUE),
     [Only("status", "Closed") EXCEPT !["priority"] = Some("High")],
     [Only("title", "T1") EXCEPT !["updated_at"] = Some(0)]}

(* The PATCH /tickets requests the model sends: every change set on every  *)
(* stored ticket, two of them on an id that is not stored                  *)
PatchInputs ==
    (TicketIds \X ChangeSets)
        \cup (MissingIds \X {NoChanges, Only("status", "Resolved")})

(* update_data = {k: v for k, v in changes.dict().items() if v is not None} *)
update_data(changes) ==
    [k \in {f \in DOMAIN changes : changes[f] # None} |-> Val(changes[k])]

(* UPDATE <table> SET <update_data>, updated_at = now WHERE id = ...       *)
(* The statement names updated_at a second time when update_data holds it, *)
(* which the database rejects (multiple assignments to the same column);   *)
(* a missing id updates no row.                                            *)
sql_update(tbl, id, data, ts) ==
    IF "updated_at" \in DOMAIN data THEN [ok |-> FALSE, tbl |-> tbl]
    ELSE IF id \notin DOMAIN tbl THEN [ok |-> TRUE, tbl |-> tbl]
    ELSE [ok |-> TRUE,
          tbl |-> [tbl EXCEPT ![id] =
                     [c \in DOMAIN tbl[id] |->
                        IF c = "updated_at" THEN ts
                        ELSE IF c \in DOMAIN data THEN data[c]
                        ELSE tbl[id][c]]]]

(* archive_ticket_in_db reporting success without looking at rowcount *)
archive_ticket_in_db_no_rowcount(tbl, id) ==
    IF id \notin DOMAIN tbl THEN [updated |-> TRUE, tbl |-> tbl]
    ELSE [updated |-> TRUE,
          tbl |-> [tbl EXCEPT ![id] =
                     [@ EXCEPT !["archived"] = TRUE, !["status"] = "Canceled"]]]

(* archive_ticket_in_db: UPDATE tickets SET archived = TRUE,               *)
(* status = 'Canceled' WHERE id = ...; returns rowcount > 0                *)
archive_ticket_in_db(tbl, id) ==
    IF id \notin DOMAIN tbl THEN [updated |-> FALSE, tbl |-> tbl]
    ELSE [updated |-> TRUE,
          tbl |-> [tbl EXCEPT ![id] =
                     [@ EXCEPT !["archived"] = TRUE, !["status"] = "Canceled"]]]

(* get_user_email_for_ticket selecting the assignee's address instead of   *)
(* the submitter's                                                         *)
get_user_email_for_ticket_assignee(tbl, id) ==
    IF id \in DOMAIN tbl THEN Some(tbl[id]["assigned_to"]) ELSE None

(* get_user_email_for_ticket: SELECT submitted_by FROM tickets WHERE id *)
get_user_email_for_ticket(tbl, id) ==
    IF id \in DOMAIN tbl THEN Some(tbl[id]["submitted_by"]) ELSE None

----------------------------------------------------------------------------
(* Requests *)

Resp200(body) == [code |-> 200, body |-> body]
Resp404 == [code |-> 404, body |-> "not found"]
Resp500 == [code |-> 500, body |-> "internal server error"]
NoResp == [code |-> 0, body |-> "none"]

NoFilter == [user_email |-> None, archived |-> FALSE]

Idle == [op |-> "none", pc |-> "idle", id |-> 0, changes |-> NoChanges,
         filter |-> NoFilter, resp |-> NoResp, notif |-> <<>>]

(* A request is taken by the lowest idle worker slot *)
Free(s) ==
    /\ reqs[s].pc = "idle"
    /\ \A t \in Slots : t < s => reqs[t].pc # "idle"
    /\ started < MaxRequests

Accept(op, id, changes, filter) ==
    [op |-> op, pc |-> "start", id |-> id, changes |-> changes,
     filter |-> filter, resp |-> NoResp, notif |-> <<>>]

(* The handler goes on to its next statement *)
Continue(s, r) ==
    /\ reqs' = [reqs EXCEPT ![s] = r]
    /\ last' = last

(* The handler returns or raises: the worker slot is free again *)
Complete(s, r, resp) ==
    /\ reqs' = [reqs EXCEPT ![s] = Idle]
    /\ last' = [r EXCEPT !.pc = "done", !.resp = resp]

----------------------------------------------------------------------------
(* The initial store *)

Ticket1 ==
    [id |-> 1, title |-> "T0", description |-> "D0", submitted_by |-> "ann@msi",
     cc_email |-> NULL, status |-> "Open", priority |-> "Medium",
     location |-> NULL, assigned_to |-> NULL, created_at |-> 0,
     updated_at |-> 0, archived |-> FALSE, screenshot |-> Some(TextList1)]

Ticket2 ==
    [id |-> 2, title |-> "T0", description |-> "D0", submitted_by |-> "bob@ext",
     cc_email |-> NULL, status |-> "Resolved", priority |-> "Medium",
     location |-> NULL, assigned_to |-> NULL, created_at |-> 1,
     updated_at |-> 1, archived |-> FALSE, screenshot |-> Some(TextUrl)]

Task1 ==
    [id |-> 1, text |-> "X0", completed |-> FALSE, priority |-> "Low",
     assigned_to |-> NULL, screenshot_url |-> NULL, user_email |-> "ann@msi",
     created_at |-> 0, updated_at |-> 0]

Ann == [email |-> "ann@msi", first_name |-> "Ann", last_name |-> "Lee"]

Init ==
    /\ tickets = [i \in TicketIds |-> IF i = 1 THEN Ticket1 ELSE Ticket2]
    /\ tasks = [i \in TaskIds |-> Task1]
    /\ users = {Ann}
    /\ now = 1
    /\ reqs = [s \in Slots |-> Idle]
    /\ last = Idle
    /\ started = 0

----------------------------------------------------------------------------
(* The clock: what datetime.now(timezone.utc) may return, given the latest *)
(* reading so far.  Time has passed since that reading, or it has not.     *)

ClockReadings == {t \in {now, now + 1} : t <= MaxTime}

----------------------------------------------------------------------------
(* PATCH /tickets/{ticket_id} *)

(* The request arrives; SELECT * FROM tickets WHERE id: 404 when no row.   *)
(* With an empty update_data no UPDATE is issued and the handler goes on   *)
(* to the re-fetch.                                                        *)
patch_ticket_select(s) ==
    \E in \in PatchInputs :
        /\ Free(s)
        /\ started' = started + 1
        /\ LET id == in[1]
               ch == in[2]
               r == Accept("patch_ticket", id, ch, NoFilter)
           IN  IF id \notin DOMAIN tickets THEN Complete(s, r, Resp404)
               ELSE IF DOMAIN update_data(ch) = {}
                    THEN Continue(s, [r EXCEPT !.pc = "updated"])
                    ELSE Continue(s, [r EXCEPT !.pc = "found"])
        /\ UNCHANGED <<tickets, tasks, users, now>>

(* now = datetime.now(); UPDATE tickets SET ..., updated_at = now; commit  *)
patch_ticket_update(s) ==
    /\ reqs[s].op = "patch_ticket" /\ reqs[s].pc = "found"
    /\ \E t \in ClockReadings :
          LET u == sql_update(tickets, reqs[s].id, update_data(reqs[s].changes), t)
          IN  /\ now' = t
              /\ tickets' = u.tbl
              /\ IF u.ok THEN Continue(s, [reqs[s] EXCEPT !.pc = "updated"])
                 ELSE Complete(s, reqs[s], Resp500)
    /\ UNCHANGED <<tasks, users, started>>

(* The notification both handlers schedule from the re-fetched row *)
status_notification(row) ==
    IF row["status"] \in {"Resolved", "Closed"}
    THEN <<[to |-> row["submitted_by"], ticket_id |-> row["id"],
            subject |-> row["status"], outcome |-> "scheduled"]>>
    ELSE <<>>

(* The tasks added to background_tasks run after the handler's response    *)
(* has been sent; a handler that raises has no response and its tasks are  *)
(* dropped                                                                 *)
background_tasks(added, ok) ==
    [k \in DOMAIN added |->
        [added[k] EXCEPT !.outcome = IF ok THEN "scheduled" ELSE "dropped"]]

(* Re-fetch the row, build the result, schedule the notification with      *)
(* background_tasks.add_task, return the TicketOut built from result       *)
patch_ticket_refetch(s) ==
    /\ reqs[s].op = "patch_ticket" /\ reqs[s].pc = "updated"
    /\ LET row == tickets[reqs[s].id]
           out == patch_ticket_row(row)
       IN  Complete(s, [reqs[s] EXCEPT !.notif =
                           background_tasks(status_notification(row), out.ok)],
                    IF out.ok THEN Resp200(out.view) ELSE Resp500)
    /\ UNCHANGED <<tickets, tasks, users, now, started>>

----------------------------------------------------------------------------
(* POST /tickets/{ticket_id}/cancel *)

cancel_ticket_archive(s) ==
    \E id \in RequestIds :
        /\ Free(s)
        /\ started' = started + 1
        /\ LET a == archive_ticket_in_db(tickets, id)
               r == Accept("cancel_ticket", id, NoChanges, NoFilter)
           IN  /\ tickets' = a.tbl
               /\ IF a.updated THEN Continue(s, [r EXCEPT !.pc = "archived"])
                  ELSE Complete(s, r, Resp404)
        /\ UNCHANGED <<tasks, users, now>>

(* send_email hands the message to the SMTP server, or raises *)
send_email == {"sent", "failed"}

(* Look up the submitter, call send_email (an exception is caught and      *)
(* printed), return {"status": "canceled"}                                 *)
cancel_ticket_notify(s) ==
    /\ reqs[s].op = "cancel_ticket" /\ reqs[s].pc = "archived"
    /\ LET user_email == get_user_email_for_ticket(tickets, reqs[s].id)
           truthy == user_email # None /\ Val(user_email) # ""
       IN  \E outcome \in IF truthy THEN send_email ELSE {"none"} :
             Complete(s,
                [reqs[s] EXCEPT !.notif =
                    IF truthy
                    THEN <<[to |-> Val(user_email), ticket_id |-> reqs[s].id,
                            subject |-> "canceled", outcome |-> outcome]>>
                    ELSE <<>>],
                Resp200("canceled"))
    /\ UNCHANGED <<tickets, tasks, users, now, started>>

----------------------------------------------------------------------------
(* GET /tickets *)

UserEmailArgs == {None, Some(""), Some("ann@msi")}

(* The WHERE clause with archived=true adding the archived tickets to the  *)
(* active ones instead of selecting them                                   *)
list_tickets_where_additive(tbl, user_email, archived) ==
    {i \in DOMAIN tbl :
        /\ (tbl[i]["archived"] = FALSE \/ archived)
        /\ (user_email # None /\ Val(user_email) # ""
              => tbl[i]["submitted_by"] = Val(user_email))}

(* WHERE t.archived = %s [AND t.submitted_by = %s]: the second condition   *)
(* is added only when user_email is truthy                                 *)
list_tickets_where(tbl, user_email, archived) ==
    {i \in DOMAIN tbl :
        /\ tbl[i]["archived"] = archived
        /\ (user_email # None /\ Val(user_email) # ""
              => tbl[i]["submitted_by"] = Val(user_email))}

(* ORDER BY t.created_at DESC: every order of the ids that complies *)
OrderByCreatedDesc(tbl, ids) ==
    {o \in [1..Cardinality(ids) -> ids] :
        /\ \A a, b \in DOMAIN o : a # b => o[a] # o[b]
        /\ \A a, b \in DOMAIN o :
              a < b => tbl[o[a]]["created_at"] >= tbl[o[b]]["created_at"]}

list_tickets(s) ==
    \E ue \in UserEmailArgs, ar \in BOOLEAN :
      \E o \in OrderByCreatedDesc(tickets, list_tickets_where(tickets, ue, ar)) :
        /\ Free(s)
        /\ started' = started + 1
        /\ LET r == Accept("list_tickets", 0, NoChanges,
                           [user_email |-> ue, archived |-> ar])
               outs == [k \in DOMAIN o |-> list_tickets_row(tickets[o[k]], users)]
           IN  IF \A k \in DOMAIN outs : outs[k].ok
               THEN Complete(s, r, Resp200([k \in DOMAIN outs |-> outs[k].view]))
               ELSE Complete(s, r, Resp500)
        /\ UNCHANGED <<tickets, tasks, users, now>>

(* GET /tickets/{ticket_id} *)
get_ticket(s) ==
    \E id \in RequestIds :
        /\ Free(s)
        /\ started' = started + 1
        /\ LET r == Accept("get_ticket", id, NoChanges, NoFilter)
           IN  IF id \notin DOMAIN tickets THEN Complete(s, r, Resp404)
               ELSE LET out == get_ticket_row(tickets[id])
                    IN  IF out.ok THEN Complete(s, r, Resp200(out.view))
                        ELSE Complete(s, r, Resp500)
        /\ UNCHANGED <<tickets, tasks, users, now>>

----------------------------------------------------------------------------
(* Tasks *)

TaskUpdateFields ==
    {"text", "completed", "priority", "assigned_to", "screenshot_url"}

NoTaskChanges == [f \in TaskUpdateFields |-> None]

TaskChangeSets ==
    {NoTaskChanges,
     [NoTaskChanges EXCEPT !["completed"] = Some(TRUE)],
     [NoTaskChanges EXCEPT !["text"] = Some("X1")]}

(* The PATCH /tasks requests the model sends *)
TaskPatchInputs ==
    (TaskIds \X TaskChangeSets)
        \cup (MissingIds \X {[NoTaskChanges EXCEPT !["text"] = Some("X1")]})

(* The PUT /tasks/{task_id}/completed requests the model sends *)
CompletedInputs == (TaskIds \X BOOLEAN) \cup (MissingIds \X {TRUE})

(* PATCH /tasks/{task_id}: existence check *)
update_task_select(s) ==
    \E in \in TaskPatchInputs :
        /\ Free(s)
        /\ started' = started + 1
        /\ LET id == in[1]
               ch == in[2]
               r == Accept("update_task", id, ch, NoFilter)
           IN  IF id \notin DOMAIN tasks THEN Complete(s, r, Resp404)
               ELSE IF DOMAIN update_data(ch) = {}
                    THEN Continue(s, [r EXCEPT !.pc = "updated"])
                    ELSE Continue(s, [r EXCEPT !.pc = "found"])
        /\ UNCHANGED <<tickets, tasks, users, now>>

(* UPDATE tasks SET ..., updated_at = now WHERE id; commit *)
update_task_update(s) ==
    /\ reqs[s].op = "update_task" /\ reqs[s].pc = "found"
    /\ \E t \in ClockReadings :
          LET u == sql_update(tasks, reqs[s].id, update_data(reqs[s].changes), t)
          IN  /\ now' = t
              /\ tasks' = u.tbl
              /\ IF u.ok THEN Continue(s, [reqs[s] EXCEPT !.pc = "updated"])
                 ELSE Complete(s, reqs[s], Resp500)
    /\ UNCHANGED <<tickets, users, started>>

(* Re-fetch: dict(zip(cols, row)) raises when the row is gone *)
update_task_refetch(s) ==
    /\ reqs[s].op = "update_task" /\ reqs[s].pc = "updated"
    /\ IF reqs[s].id \in DOMAIN tasks
       THEN Complete(s, reqs[s], Resp200(tasks[reqs[s].id]))
       ELSE Complete(s, reqs[s], Resp500)
    /\ UNCHANGED <<tickets, tasks, users, now, started>>

(* DELETE /tasks/{task_id} *)
delete_task(s) ==
    \E id \in TaskRequestIds :
        /\ Free(s)
        /\ started' = started + 1
        /\ tasks' = [i \in (DOMAIN tasks) \ {id} |-> tasks[i]]
        /\ Complete(s, Accept("delete_task", id, NoChanges, NoFilter),
                    [code |-> 204, body |-> "none"])
        /\ UNCHANGED <<tickets, users, now>>

(* PUT /tasks/{task_id}/completed: UPDATE ... RETURNING, 404 when no row *)
set_task_completed(s) ==
    \E in \in CompletedInputs, t \in ClockReadings :
        /\ Free(s)
        /\ now' = t
        /\ started' = started + 1
        /\ LET id == in[1]
               completed == in[2]
               r == Accept("set_task_completed", id,
                           [NoTaskChanges EXCEPT !["completed"] = Some(completed)],
                           NoFilter)
           IN  IF id \in DOMAIN tasks
               THEN /\ tasks' = [tasks EXCEPT ![id] =
                          [@ EXCEPT !["completed"] = completed, !["updated_at"] = t]]
                    /\ Complete(s, r, Resp200(tasks'[id]))
               ELSE /\ tasks' = tasks
                    /\ Complete(s, r, Resp404)
        /\ UNCHANGED <<tickets, users>>

----------------------------------------------------------------------------
Next ==
    \/ \E s \in Slots : patch_ticket_select(s)
    \/ \E s \in Slots : patch_ticket_update(s)
    \/ \E s \in Slots : patch_ticket_refetch(s)
    \/ \E s \in Slots : cancel_ticket_archive(s)
    \/ \E s \in Slots : cancel_ticket_notify(s)
    \/ \E s \in Slots : list_tickets(s)
    \/ \E s \in Slots : get_ticket(s)
    \/ \E s \in Slots : update_task_select(s)
    \/ \E s \in Slots : update_task_update(s)
    \/ \E s \in Slots : update_task_refetch(s)
    \/ \E s \in Slots : delete_task(s)
    \/ \E s \in Slots : set_task_completed(s)

Spec == Init /\ [][Next]_vars

----------------------------------------------------------------------------
(* Projections of one stored ticket: the row's screenshot text and         *)
(* submitter, and the users table, are drawn from the sets below; the      *)
(* three handlers that project a ticket then run on it.                    *)

ScreenshotValues ==
    {None, Some(TextEmpty), Some(TextUrl), Some(TextList0), Some(TextList1),
     Some(TextList2)}

InitProj ==
    /\ \E sc \in ScreenshotValues, sb \in {"ann@msi", "bob@ext"} :
          tickets = [i \in TicketIds |->
                        IF i = 1
                        THEN [Ticket1 EXCEPT !["screenshot"] = sc,
                                             !["submitted_by"] = sb]
                        ELSE Ticket2]
    /\ tasks = [i \in TaskIds |-> Task1]
    /\ users \in {{}, {Ann}}
    /\ now = 1
    /\ reqs = [s \in Slots |-> Idle]
    /\ last = Idle
    /\ started = 0

NextProj ==
    \/ \E s \in Slots : list_tickets(s)
    \/ \E s \in Slots : get_ticket(s)
    \/ \E s \in Slots : patch_ticket_select(s)
    \/ \E s \in Slots : patch_ticket_update(s)
    \/ \E s \in Slots : patch_ticket_refetch(s)

SpecProj == InitProj /\ [][NextProj]_vars

----------------------------------------------------------------------------
(* Vocabulary of the properties *)

InFlight(rq) == {s \in Slots : rq[s].pc # "idle"}

(* This step accepts a request *)
Arrives == started' = started + 1

(* This step ends a request: its record, with the response, is last' *)
Completes ==
    started' - Cardinality(InFlight(reqs')) = started - Cardinality(InFlight(reqs)) + 1

(* The completed request was a PATCH on a stored ticket *)
PatchedTicket(r) ==
    r.op = "patch_ticket" /\ r.pc = "done" /\ r.id \in TicketIds

TerminalStatus == {"Resolved", "Closed"}

(* The fields the PATCH body is documented to carry *)
PatchableFields ==
    {"title", "description", "status", "priority", "assigned_to", "archived"}

----------------------------------------------------------------------------
(* C1. Sparse patch: the UPDATE of a PATCH /tickets request sets every     *)
(* field that is non-null in the change set to the given value, stamps     *)
(* updated_at, and leaves every other column of the row, and every other   *)
(* row, as it was.                                                         *)
C1_SparsePatch ==
    [][\A s \in Slots :
          (reqs[s].op = "patch_ticket" /\ reqs[s].pc = "found" /\ reqs'[s] # reqs[s])
          => LET id == reqs[s].id
                 ch == reqs[s].changes
             IN  /\ \A c \in DOMAIN tickets[id] :
                       IF c = "updated_at" THEN tickets'[id][c] = now'
                       ELSE IF c \in DOMAIN ch /\ ch[c] # None
                            THEN tickets'[id][c] = Val(ch[c])
                            ELSE tickets'[id][c] = tickets[id][c]
                 /\ \A j \in DOMAIN tickets : j # id => tickets'[j] = tickets[j]
      ]_vars

(* C2. Patch no-op: no step of a PATCH /tickets request with an empty or   *)
(* all-null change set changes a stored ticket, and the request ends with  *)
(* no notification scheduled, whatever the ticket's status.                *)
C2_PatchNoOp ==
    [][/\ \A s \in Slots :
             (reqs'[s].op = "patch_ticket" /\ reqs'[s] # reqs[s]
                 /\ DOMAIN update_data(reqs'[s].changes) = {})
             => tickets' = tickets
       /\ (Completes /\ PatchedTicket(last')
              /\ DOMAIN update_data(last'.changes) = {})
          => (tickets' = tickets /\ last'.notif = <<>>)
      ]_vars

(* C3. Terminal status notification: a completed PATCH on a stored ticket  *)
(* whose change set sets status to Resolved or Closed has scheduled        *)
(* exactly one notification, addressed to the ticket's submitted_by.       *)
C3_TerminalNotifies ==
    (PatchedTicket(last)
        /\ last.changes["status"] # None
        /\ Val(last.changes["status"]) \in TerminalStatus)
    => (Len(last.notif) = 1
           /\ last.notif[1].to = tickets[last.id]["submitted_by"])

(* C4. A completed PATCH /tickets request has scheduled a notification     *)
(* only if its own change set holds a non-null status that is Resolved or  *)
(* Closed.                                                                 *)
C4_NotifiesOnlyOwnTerminal ==
    (last.op = "patch_ticket" /\ last.pc = "done" /\ last.notif # <<>>)
    => (last.changes["status"] # None
           /\ Val(last.changes["status"]) \in TerminalStatus)

(* C5. Archived is a selector: GET /tickets answers 200 with exactly the   *)
(* stored tickets whose archived flag equals the filter's (false by        *)
(* default), narrowed to exact submitted_by matches when a non-empty       *)
(* user_email is given; every view returned carries that archived value.   *)
C5_ArchivedSelector ==
    [][(Completes /\ last'.op = "list_tickets")
       => LET f == last'.filter
              body == last'.resp.body
              given == f.user_email # None /\ Val(f.user_email) # ""
          IN  /\ last'.resp.code = 200
              /\ {body[k]["id"] : k \in DOMAIN body}
                    = {i \in DOMAIN tickets :
                          /\ tickets[i]["archived"] = f.archived
                          /\ given => tickets[i]["submitted_by"] = Val(f.user_email)}
              /\ \A k \in DOMAIN body : body[k]["archived"] = f.archived
              /\ \A k, m \in DOMAIN body : k # m => body[k]["id"] # body[m]["id"]
      ]_vars

(* A listing of the archived tickets that holds a ticket archived by       *)
(* POST /tickets/{id}/cancel                                               *)
C5_Witness ==
    /\ last.op = "list_tickets" /\ last.pc = "done"
    /\ last.filter.archived = TRUE
    /\ last.resp.code = 200
    /\ \E k \in DOMAIN last.resp.body : last.resp.body[k]["status"] = "Canceled"

(* C6. Not found: a PATCH /tickets, PATCH /tasks, PUT /tasks/completed or  *)
(* POST /tickets/cancel request on an id that is not stored ends with 404  *)
(* in the step that looks the id up, changes no stored ticket or task and  *)
(* issues no notification; only a request on a stored id goes on.          *)
C6_NotFound ==
    [][Arrives
       => LET byId == {"patch_ticket", "cancel_ticket", "update_task",
                       "set_task_completed"}
              store(op) == IF op \in {"patch_ticket", "cancel_ticket"}
                           THEN DOMAIN tickets ELSE DOMAIN tasks
          IN  /\ \A s \in Slots :
                    (reqs'[s] # reqs[s] /\ reqs'[s].op \in byId)
                    => reqs'[s].id \in store(reqs'[s].op)
              /\ (Completes /\ last'.op \in byId /\ last'.id \notin store(last'.op))
                 => /\ last'.resp.code = 404
                    /\ tickets' = tickets
                    /\ tasks' = tasks
                    /\ last'.notif = <<>>
      ]_vars

(* A cancel of an id that is not stored has ended *)
C6_Witness ==
    /\ last.op = "cancel_ticket" /\ last.pc = "done"
    /\ last.id \in MissingIds
    /\ last.resp.code = 404

(* C7. A PATCH on a stored ticket with a change set over the patchable     *)
(* fields ends with 200 and a TicketOut, screenshots included, whose       *)
(* fields equal the stored row.                                            *)
C7_PatchReturnsView ==
    [][(Completes /\ PatchedTicket(last')
           /\ \A f \in TicketUpdateFields \ PatchableFields : last'.changes[f] = None)
       => /\ last'.resp.code = 200
          /\ "screenshots" \in DOMAIN last'.resp.body
          /\ \A c \in (DOMAIN tickets'[last'.id]) \ {"screenshot"} :
                last'.resp.body[c] = tickets'[last'.id][c]
      ]_vars

(* The list each projection is to give for a stored screenshot value *)
ExpectedScreenshots(raw) ==
    IF raw = None \/ raw = Some(TextEmpty) \/ raw = Some(TextList0) THEN <<>>
    ELSE IF raw = Some(TextUrl) \/ raw = Some(TextList1) THEN <<U1>>
    ELSE <<U1, U2>>

(* The completed request projected stored tickets: which, and the views *)
Projected(r) ==
    IF r.pc # "done" THEN {}
    ELSE IF r.op = "list_tickets"
         THEN IF r.resp.code = 200
              THEN {<<r.resp.body[k]["id"], r.resp>> : k \in DOMAIN r.resp.body}
              ELSE {<<0, r.resp>>}
    ELSE IF r.op = "get_ticket" /\ r.id \in TicketIds THEN {<<r.id, r.resp>>}
    ELSE IF PatchedTicket(r) /\ r.changes["updated_at"] = None
         THEN {<<r.id, r.resp>>}
    ELSE {}

ViewOf(r, id) ==
    IF r.op = "list_tickets"
    THEN r.resp.body[CHOOSE k \in DOMAIN r.resp.body : r.resp.body[k]["id"] = id]
    ELSE r.resp.body

(* C8. Screenshot decode: GET /tickets, GET /tickets/{id} and the PATCH    *)
(* response answer 200 and give, for a stored screenshot that is null,     *)
(* empty, one URL or a JSON array of URLs, the list [], [], [url],         *)
(* [url, ...].                                                             *)
C8_ScreenshotDecode ==
    \A p \in Projected(last) :
        /\ p[2].code = 200
        /\ ViewOf(last, p[1])["screenshots"]
              = ExpectedScreenshots(tickets[p[1]]["screenshot"])

(* The submitter's name as the claim resolves it *)
ExpectedName(us, email) ==
    IF \E u \in us : u.email = email
    THEN LET u == CHOOSE u \in us : u.email = email
         IN  u.first_name \o " " \o u.last_name
    ELSE email

(* C9. Submitter name: every projection answers 200 with submitted_by_name *)
(* the profile name of the user whose email is submitted_by, or the raw    *)
(* submitted_by when there is no such user; it is not empty.               *)
C9_SubmitterName ==
    \A p \in Projected(last) :
        /\ p[2].code = 200
        /\ ViewOf(last, p[1])["submitted_by_name"]
              = ExpectedName(users, tickets[p[1]]["submitted_by"])
        /\ ViewOf(last, p[1])["submitted_by_name"] # ""

(* C10. updated_at is refreshed by every successful ticket mutation: the   *)
(* UPDATE of a PATCH that applies a field, and the UPDATE of a cancel,     *)
(* leave updated_at equal to the time of the mutation, not below its       *)
(* previous value nor below created_at.                                    *)
C10_UpdatedAtRefreshed ==
    [][\A s \in Slots :
          (\/ reqs[s].op = "patch_ticket" /\ reqs[s].pc = "found"
                 /\ reqs'[s].pc = "updated"
           \/ reqs[s].pc = "idle" /\ reqs'[s].op = "cancel_ticket"
                 /\ reqs'[s].pc = "archived")
          => LET id == reqs'[s].id
             IN  /\ tickets'[id]["updated_at"] = now'
                 /\ tickets'[id]["updated_at"] >= tickets[id]["updated_at"]
                 /\ tickets'[id]["updated_at"] >= tickets'[id]["created_at"]
      ]_vars

(* C11. Cancel: POST /tickets/{id}/cancel on a stored ticket goes through  *)
(* its UPDATE, which leaves the ticket stored with archived true whether   *)
(* or not it was archived before, and ends with 200 having issued exactly  *)
(* one notification, addressed to the ticket's submitted_by; no step       *)
(* removes a ticket from the store.                                        *)
C11_CancelArchives ==
    [][/\ DOMAIN tickets' = DOMAIN tickets
       /\ \A s \in Slots :
             (reqs[s].pc = "idle" /\ reqs'[s].op = "cancel_ticket")
             => /\ reqs'[s].pc = "archived"
                /\ tickets'[reqs'[s].id]["archived"] = TRUE
       /\ (Arrives /\ Completes /\ last'.op = "cancel_ticket")
          => last'.id \notin DOMAIN tickets
       /\ (Completes /\ last'.op = "cancel_ticket" /\ last'.id \in DOMAIN tickets)
          => /\ last'.resp.code = 200
             /\ tickets'[last'.id]["archived"] = tickets[last'.id]["archived"]
             /\ Len(last'.notif) = 1
             /\ last'.notif[1].ticket_id = last'.id
             /\ last'.notif[1].to = tickets'[last'.id]["submitted_by"]
      ]_vars

(* A cancel of a ticket has ended with its notification while a second     *)
(* cancel of the same ticket, whose UPDATE found it already archived, is   *)
(* still to send its own                                                   *)
C11_Witness ==
    /\ last.op = "cancel_ticket" /\ last.pc = "done"
    /\ last.resp.code = 200
    /\ Len(last.notif) = 1
    /\ \E s \in Slots :
          /\ reqs[s].op = "cancel_ticket" /\ reqs[s].pc = "archived"
          /\ reqs[s].id = last.id
          /\ tickets[last.id]["archived"] = TRUE

(* C12. No lost update on disjoint fields: when a PATCH writes while a     *)
(* concurrent PATCH on the same ticket, with a change set over other       *)
(* fields, has written and is still to re-read, the row after the write    *)
(* keeps every field of the other change set as it was and carries the     *)
(* given value of every field of the writer's own change set.              *)
C12_NoLostUpdate ==
    [][\A s, t \in Slots :
          LET mine == update_data(reqs[s].changes)
              theirs == update_data(reqs[t].changes)
              id == reqs[s].id
          IN  (/\ s # t
               /\ reqs[s].op = "patch_ticket" /\ reqs[s].pc = "found"
               /\ reqs'[s] # reqs[s]
               /\ reqs[t].op = "patch_ticket" /\ reqs[t].pc = "updated"
               /\ reqs[t].id = id
               /\ DOMAIN theirs # {}
               /\ DOMAIN mine \cap DOMAIN theirs = {})
              => /\ \A f \in DOMAIN theirs \ {"updated_at"} :
                       tickets'[id][f] = tickets[id][f]
                 /\ \A f \in DOMAIN mine \ {"updated_at"} :
                       tickets'[id][f] = mine[f]
      ]_vars

(* C13. Write-then-re-read is one unit: between the UPDATE of a PATCH and  *)
(* that PATCH's re-read no step of another request changes the ticket's    *)
(* row, and the row the PATCH re-reads for its response carries, for every *)
(* field the PATCH applied, the value the PATCH wrote.                     *)
C13_WriteRereadUnit ==
    [][\A s \in Slots :
          LET id == reqs[s].id
              mine == update_data(reqs[s].changes)
          IN  (reqs[s].op = "patch_ticket" /\ reqs[s].pc = "updated"
                  /\ DOMAIN mine # {})
              => IF reqs'[s] = reqs[s]
                 THEN tickets'[id] = tickets[id]
                 ELSE \A f \in DOMAIN mine : tickets[id][f] = mine[f]
      ]_vars

(* C14. Independent failure domains: a PATCH or cancel on a stored ticket  *)
(* whose notification was not delivered (sending raised, or the scheduled  *)
(* task was never run) still ends with its 200 response, and the step that *)
(* ends it leaves the ticket as the request's UPDATE committed it.         *)
C14_NotificationFailureIsolated ==
    [][(/\ Completes
        /\ last'.op \in {"patch_ticket", "cancel_ticket"}
        /\ last'.id \in DOMAIN tickets
        /\ last'.notif # <<>>
        /\ last'.notif[1].outcome \in {"failed", "dropped"})
       => /\ last'.resp.code = 200
          /\ tickets' = tickets
      ]_vars

(* C15. Task patch versus delete: a completed PATCH /tasks/{id} has ended  *)
(* with 404, or with 200 and the task's row, and with nothing else, in     *)
(* every interleaving with DELETE /tasks/{id}; once a DELETE has           *)
(* completed the task is not in the store.                                 *)
C15_TaskPatchVersusDelete ==
    /\ (last.op = "update_task" /\ last.pc = "done")
       => \/ last.resp.code = 404
          \/ last.resp.code = 200 /\ last.resp.body["id"] = last.id
    /\ (last.op = "delete_task" /\ last.pc = "done")
       => last.id \notin DOMAIN tasks

====
